---- MODULE Spec2Model ----
(***************************************************************************)
(* Model of src/edu.py: class QuizGenerator.                               *)
(*                                                                         *)
(* Python values are modelled as records of one shape,                     *)
(*     [t |-> type tag, s |-> string payload, n |-> integer payload,       *)
(*      c |-> children],                                                   *)
(* a list keeping its items in c and a dict keeping its entries in c as    *)
(* the flat, insertion-ordered sequence <<key1, value1, key2, value2 ..>>. *)
(***************************************************************************)
EXTENDS Integers, Sequences, FiniteSets, TLC

VARIABLES
    pc,          \* "idle", or the position inside a running generate_* call
    call,        \* the arguments of the running / last generate_* call
    script,      \* what the external engine does at its 1st, 2nd, 3rd invocation
    attempt,     \* tenacity's attempt_number of the running / last call
    bodyRuns,    \* executions of the decorated function body in that call
    engineCalls, \* invocations of the external engine in that call
    waits,       \* the backoff sleeps tenacity made in that call (seconds)
    outcome,     \* how the last call ended: returned value or raised error
    vrun,        \* the last _validate_quiz_data run: input and result
    now,         \* the clock, in seconds
    dirExists,   \* whether the directory self.output_dir exists
    files,       \* the files under output_dir: file name -> content
    saves,       \* the save_quiz calls made so far, oldest first
    saveOut      \* how the last save_quiz call ended

vars == <<pc, call, script, attempt, bodyRuns, engineCalls, waits, outcome,
          vrun, now, dirExists, files, saves, saveOut>>

----------------------------------------------------------------------------
(* Bounds of the model *)

\* the external engine returns at most this many questions
MaxQuestions == 2
\* the clock ticks between calls up to this, and calls start by then
MaxClock == 1
\* at most this many save_quiz calls
MaxSaves == 2

(* Constants of the program *)

\* stop_after_attempt(3)
MaxAttempts == 3
\* wait_exponential(multiplier=1, min=4, max=10)
WaitMultiplier == 1
WaitMin == 4
WaitMax == 10
\* len(question["options"]) != 4
NumOptions == 4

----------------------------------------------------------------------------
(* Python values *)

PyStr(x) == [t |-> "str", s |-> x, n |-> 0, c |-> <<>>]
PyInt(i) == [t |-> "int", s |-> "", n |-> i, c |-> <<>>]
PyNone == [t |-> "none", s |-> "", n |-> 0, c |-> <<>>]
PyList(items) == [t |-> "list", s |-> "", n |-> 0, c |-> items]
PyDict(entries) == [t |-> "dict", s |-> "", n |-> 0, c |-> entries]

\* key in d
HasKey(d, key) == \E i \in 1..(Len(d.c) \div 2) : d.c[2 * i - 1] = PyStr(key)

\* d[key], for a key that is in d
GetItem(d, key) ==
    d.c[2 * (CHOOSE i \in 1..(Len(d.c) \div 2) : d.c[2 * i - 1] = PyStr(key))]

\* bool(v): the truth value of a Python value
Truthy(v) ==
    CASE v.t = "str" -> v.s # ""
      [] v.t = "int" -> v.n # 0
      [] v.t = "none" -> FALSE
      [] OTHER -> Len(v.c) > 0

----------------------------------------------------------------------------
(* _validate_quiz_data *)

required_keys == {"question", "options", "answer", "explanation"}

\* the result of a function that returns None or raises
Returned == [ok |-> TRUE, exc |-> "", msg |-> "", examined |-> 0]
Raised(e, m) == [ok |-> FALSE, exc |-> e, msg |-> m, examined |-> 0]

\* CheckQuestion with the length test written as "fewer than 4"
CheckQuestionAtLeast(question, i) ==
    IF ~ \A key \in required_keys : HasKey(question, key)
    THEN Raised("ValueError",
                "Question " \o ToString(i) \o " missing required fields")
    ELSE IF GetItem(question, "options").t # "list"
    THEN Raised("ValueError",
                "Options for question " \o ToString(i) \o " must be a list")
    ELSE IF Len(GetItem(question, "options").c) < NumOptions
    THEN Raised("ValueError",
                "Question " \o ToString(i) \o " must have exactly 4 options")
    ELSE Returned

\* the checks of the loop body on questions[i] (i is 1-based here, 0-based
\* in the code, so the message names Question i)
CheckQuestion(question, i) ==
    IF ~ \A key \in required_keys : HasKey(question, key)
    THEN Raised("ValueError",
                "Question " \o ToString(i) \o " missing required fields")
    ELSE IF GetItem(question, "options").t # "list"
    THEN Raised("ValueError",
                "Options for question " \o ToString(i) \o " must be a list")
    ELSE IF Len(GetItem(question, "options").c) # NumOptions
    THEN Raised("ValueError",
                "Question " \o ToString(i) \o " must have exactly 4 options")
    ELSE Returned

\* the loop written to go through every question and raise the error of
\* the last one that fails
RECURSIVE ValidateFromLast(_, _)
ValidateFromLast(questions, i) ==
    IF i > Len(questions)
    THEN [Returned EXCEPT !.examined = Len(questions)]
    ELSE LET r == CheckQuestion(questions[i], i)
             later == ValidateFromLast(questions, i + 1)
         IN  IF later.ok /\ ~ r.ok
             THEN [r EXCEPT !.examined = Len(questions)]
             ELSE later

\* the loop over enumerate(quiz_data["questions"]) from position i on; the
\* result records how many questions the loop examined
RECURSIVE ValidateFrom(_, _)
ValidateFrom(questions, i) ==
    IF i > Len(questions)
    THEN [Returned EXCEPT !.examined = Len(questions)]
    ELSE LET r == CheckQuestion(questions[i], i)
         IN  IF r.ok
             THEN ValidateFrom(questions, i + 1)
             ELSE [r EXCEPT !.examined = i]

validate_quiz_data(quiz_data) ==
    IF quiz_data.t # "dict"
    THEN Raised("ValueError", "Quiz data must be a dictionary")
    ELSE IF ~ HasKey(quiz_data, "questions")
    THEN Raised("ValueError", "Quiz data must contain 'questions' key")
    ELSE IF GetItem(quiz_data, "questions").t # "list"
    THEN \* enumerate() of a value that is no sequence (None, a number)
         Raised("TypeError", "object is not iterable")
    ELSE ValidateFrom(GetItem(quiz_data, "questions").c, 1)

----------------------------------------------------------------------------
(* urlparse: a url is a sequence of one-character strings *)

Letters == {"h", "a", "p"}
scheme_chars == Letters \cup {"+", "-", "."}

\* url.find(c): the first position of c in url, 0 when there is none
Find(url, ch) ==
    IF \E i \in 1..Len(url) : url[i] = ch
    THEN CHOOSE i \in 1..Len(url) :
             url[i] = ch /\ \A j \in 1..(i - 1) : url[j] # ch
    ELSE 0

\* the text of a sequence of characters
RECURSIVE Join(_)
Join(chars) == IF chars = <<>> THEN "" ELSE Head(chars) \o Join(Tail(chars))

\* urlsplit: the scheme is what precedes the first ":" when it starts with
\* a letter and holds only scheme characters; the netloc is what follows
\* a leading "//" up to the next "/", "?" or "#"
urlparse(url) ==
    LET i == Find(url, ":")
        hasScheme == /\ i > 1
                     /\ url[1] \in Letters
                     /\ \A j \in 1..(i - 1) : url[j] \in scheme_chars
        rest == IF hasScheme THEN SubSeq(url, i + 1, Len(url)) ELSE url
        hasNetloc == Len(rest) >= 2 /\ rest[1] = "/" /\ rest[2] = "/"
        after == SubSeq(rest, 3, Len(rest))
        stops == {j \in 1..Len(after) : after[j] \in {"/", "?", "#"}}
        stop == IF stops = {} THEN Len(after) + 1
                ELSE CHOOSE j \in stops : \A k \in stops : j <= k
    IN  [scheme |-> IF hasScheme THEN Join(SubSeq(url, 1, i - 1)) ELSE "",
         netloc |-> IF hasNetloc THEN Join(SubSeq(after, 1, stop - 1)) ELSE ""]

----------------------------------------------------------------------------
(* The external engine: at one invocation it raises or returns data *)

EngineRaises == [raises |-> TRUE, data |-> PyNone]
EngineReturns(d) == [raises |-> FALSE, data |-> d]

\* the result of one execution of a function body: a returned value or a
\* raised error, and the number of engine invocations it made
BodyReturned(v, k) ==
    [kind |-> "returned", exc |-> "", msg |-> "", value |-> v, engine |-> k]
BodyRaised(e, m, k) ==
    [kind |-> "raised", exc |-> e, msg |-> m, value |-> PyNone, engine |-> k]
NoOutcome ==
    [kind |-> "none", exc |-> "", msg |-> "", value |-> PyNone, engine |-> 0]

\* datetime.now().isoformat()
isoformat(t) == ToString(t)

----------------------------------------------------------------------------
(* generate_topic_quiz: the decorated body *)

\* the message of the ValueError the input validation raises, "" when the
\* inputs pass
TopicInputError(c) ==
    IF ~ Truthy(c.topic) \/ c.topic.t # "str"
    THEN "Topic must be a non-empty string"
    ELSE IF c.num.t # "int" \/ c.num.n < 1
    THEN "Number of questions must be a positive integer"
    ELSE IF c.difficulty \notin {PyStr("Easy"), PyStr("Medium"), PyStr("Hard")}
    THEN "Difficulty must be Easy, Medium, or Hard"
    ELSE ""

TopicErrorRecord(c, msg, t) ==
    PyDict(<<PyStr("error"), PyStr("Failed to generate topic quiz: " \o msg),
             PyStr("timestamp"), PyStr(isoformat(t)),
             PyStr("params"),
             PyDict(<<PyStr("topic"), c.topic,
                      PyStr("num_questions"), c.num,
                      PyStr("type"), c.qtype,
                      PyStr("difficulty"), c.difficulty>>)>>)

\* TopicTry without the except clause: the errors of the engine and of the
\* validation leave the body
TopicTryNoExcept(c, eng, t) ==
    IF eng.raises
    THEN BodyRaised("Exception", "engine failure", 1)
    ELSE LET r == validate_quiz_data(eng.data)
         IN  IF r.ok
             THEN BodyReturned(eng.data, 1)
             ELSE BodyRaised(r.exc, r.msg, 1)

\* the try block: the engine call, questions.dict(), the validation; any
\* exception becomes the error record
TopicTry(c, eng, t) ==
    IF eng.raises
    THEN BodyReturned(TopicErrorRecord(c, "engine failure", t), 1)
    ELSE LET r == validate_quiz_data(eng.data)
         IN  IF r.ok
             THEN BodyReturned(eng.data, 1)
             ELSE BodyReturned(TopicErrorRecord(c, r.msg, t), 1)

generate_topic_quiz_body(c, eng, t) ==
    IF TopicInputError(c) # ""
    THEN BodyRaised("ValueError", TopicInputError(c), 0)
    ELSE TopicTry(c, eng, t)

----------------------------------------------------------------------------
(* generate_url_quiz: the decorated body *)

\* UrlInputError with any([...]) in the place of all([...])
UrlInputErrorAny(c) ==
    LET result == urlparse(c.url)
    IN  IF ~ (result.scheme # "" \/ result.netloc # "")
        THEN "Invalid URL provided"
        ELSE ""

\* the message of the ValueError the URL validation raises, "" when the url
\* passes: the ValueError raised inside the try is caught by its own
\* except clause and raised again with the second message
UrlInputError(c) ==
    LET result == urlparse(c.url)
    IN  IF ~ (result.scheme # "" /\ result.netloc # "")
        THEN "Invalid URL provided"
        ELSE ""

UrlErrorRecord(c, msg, t) ==
    PyDict(<<PyStr("error"), PyStr("Failed to generate URL quiz: " \o msg),
             PyStr("timestamp"), PyStr(isoformat(t)),
             PyStr("params"),
             PyDict(<<PyStr("url"), PyStr(Join(c.url)),
                      PyStr("num_questions"), c.num,
                      PyStr("type"), c.qtype>>)>>)

UrlTry(c, eng, t) ==
    IF eng.raises
    THEN BodyReturned(UrlErrorRecord(c, "engine failure", t), 1)
    ELSE LET r == validate_quiz_data(eng.data)
         IN  IF r.ok
             THEN BodyReturned(eng.data, 1)
             ELSE BodyReturned(UrlErrorRecord(c, r.msg, t), 1)

generate_url_quiz_body(c, eng, t) ==
    IF UrlInputError(c) # ""
    THEN BodyRaised("ValueError", UrlInputError(c), 0)
    ELSE UrlTry(c, eng, t)

----------------------------------------------------------------------------
(* tenacity: @retry(stop=stop_after_attempt(3),                            *)
(*                  wait=wait_exponential(multiplier=1, min=4, max=10))    *)

RECURSIVE Pow2(_)
Pow2(k) == IF k = 0 THEN 1 ELSE 2 * Pow2(k - 1)

Max(a, b) == IF a >= b THEN a ELSE b
Min(a, b) == IF a <= b THEN a ELSE b

\* the sleep after the failed attempt number k
wait_exponential(k) ==
    Max(Max(0, WaitMin), Min(WaitMultiplier * Pow2(k - 1), WaitMax))

\* stop_after_attempt: no further attempt after attempt number k
stop_after_attempt(k) == k >= MaxAttempts

----------------------------------------------------------------------------
(* The inputs and the engine's data the model draws from *)

SeqsUpTo(S, n) == UNION {[1..k -> S] : k \in 0..n}

Options(k) == PyList([i \in 1..k |-> PyStr("o")])

Question(opts, expl) ==
    PyDict(<<PyStr("question"), PyStr("q"), PyStr("options"), opts,
             PyStr("answer"), PyStr("A"), PyStr("explanation"), expl>>)

\* a question without the field at position i of its four fields
Without(q, i) ==
    [q EXCEPT !.c = SubSeq(q.c, 1, 2 * i - 2) \o SubSeq(q.c, 2 * i + 1, Len(q.c))]

GoodQuestion == Question(Options(NumOptions), PyStr("e"))

\* the questions the engine hands back: well formed ones, one without a
\* field, one whose options are no list, ones with 3 and with 5 options
EngineQuestions ==
    {GoodQuestion,
     Question(Options(NumOptions), PyNone),
     Without(GoodQuestion, 3),
     Question(PyStr("o"), PyStr("e")),
     Question(Options(NumOptions - 1), PyStr("e")),
     Question(Options(NumOptions + 1), PyStr("e"))}

Quiz(questions) == PyDict(<<PyStr("questions"), PyList(questions)>>)

\* what questions.dict() can be: a quiz, a mapping without "questions",
\* something that is no mapping
EngineData ==
    {Quiz(qs) : qs \in SeqsUpTo(EngineQuestions, MaxQuestions)}
        \cup {PyDict(<<PyStr("items"), PyList(<<GoodQuestion>>)>>),
              PyList(<<GoodQuestion>>), PyNone}

\* the engine's behaviours at an invocation the script marks "raise" or
\* "return"
EngineBehaviours(mark) ==
    IF mark = "raise" THEN {EngineRaises}
    ELSE {EngineReturns(d) : d \in EngineData}

Scripts == [1..MaxAttempts -> {"raise", "return"}]

Topics == {PyStr("AI"), PyStr(""), PyInt(7)}
Nums == {PyInt(2), PyInt(0), PyStr("2")}
Difficulties == {PyStr("Easy"), PyStr("Medium"), PyStr("Hard"), PyStr("Extreme")}
QTypes == {PyStr("Multiple Choice")}
Urls ==
    {<<"h", ":", "/", "/", "a", "/", "p">>,
     <<"h", ":", "/", "/", "a">>,
     <<"a", "/", "p">>,
     <<"h", ":", "p">>,
     <<"/", "/", "a", "/", "p">>,
     <<"h", ":", "/", "/", "/", "p">>,
     <<>>}

NoCall ==
    [op |-> "none", topic |-> PyNone, url |-> <<>>, num |-> PyNone,
     qtype |-> PyNone, difficulty |-> PyNone]

----------------------------------------------------------------------------
(* The generation operations *)

GenUnchanged == UNCHANGED <<vrun, dirExists, files, saves, saveOut>>

\* a caller invokes generate_topic_quiz
CallTopic ==
    /\ pc = "idle"
    /\ now <= MaxClock
    /\ \E topic \in Topics, num \in Nums, qtype \in QTypes,
          difficulty \in Difficulties, scr \in Scripts :
          /\ call' = [op |-> "topic", topic |-> topic, url |-> <<>>,
                      num |-> num, qtype |-> qtype, difficulty |-> difficulty]
          /\ script' = scr
    /\ pc' = "topic"
    /\ attempt' = 1
    /\ bodyRuns' = 0
    /\ engineCalls' = 0
    /\ waits' = <<>>
    /\ outcome' = NoOutcome
    /\ UNCHANGED now
    /\ GenUnchanged

\* a caller invokes generate_url_quiz
CallUrl ==
    /\ pc = "idle"
    /\ now <= MaxClock
    /\ \E url \in Urls, num \in Nums, qtype \in QTypes, scr \in Scripts :
          /\ call' = [op |-> "url", topic |-> PyNone, url |-> url,
                      num |-> num, qtype |-> qtype, difficulty |-> PyNone]
          /\ script' = scr
    /\ pc' = "url"
    /\ attempt' = 1
    /\ bodyRuns' = 0
    /\ engineCalls' = 0
    /\ waits' = <<>>
    /\ outcome' = NoOutcome
    /\ UNCHANGED now
    /\ GenUnchanged

\* one attempt: tenacity runs the body; a returned value ends the call, a
\* raised error is handed to the retry decision
Attempt(r) ==
    /\ bodyRuns' = bodyRuns + 1
    /\ engineCalls' = engineCalls + r.engine
    /\ outcome' = r
    /\ pc' = IF r.kind = "raised" THEN "retry" ELSE "idle"
    /\ UNCHANGED <<call, script, attempt, waits, now>>
    /\ GenUnchanged

TopicBody ==
    /\ pc = "topic"
    /\ \E eng \in EngineBehaviours(script[engineCalls + 1]) :
          Attempt(generate_topic_quiz_body(call, eng, now))

UrlBody ==
    /\ pc = "url"
    /\ \E eng \in EngineBehaviours(script[engineCalls + 1]) :
          Attempt(generate_url_quiz_body(call, eng, now))

\* the attempt raised and attempts are left: sleep, then run the body again
RetryWait ==
    /\ pc = "retry"
    /\ ~ stop_after_attempt(attempt)
    /\ waits' = Append(waits, wait_exponential(attempt))
    /\ now' = now + wait_exponential(attempt)
    /\ attempt' = attempt + 1
    /\ pc' = call.op
    /\ UNCHANGED <<call, script, bodyRuns, engineCalls, outcome>>
    /\ GenUnchanged

\* the attempt raised and it was the last one: RetryError reaches the caller
RetryStop ==
    /\ pc = "retry"
    /\ stop_after_attempt(attempt)
    /\ outcome' = BodyRaised("RetryError", outcome.msg, 0)
    /\ pc' = "idle"
    /\ UNCHANGED <<call, script, attempt, bodyRuns, engineCalls, waits, now>>
    /\ GenUnchanged

\* time passes between calls
Tick ==
    /\ pc = "idle"
    /\ now < MaxClock
    /\ now' = now + 1
    /\ UNCHANGED <<pc, call, script, attempt, bodyRuns, engineCalls, waits,
                   outcome>>
    /\ GenUnchanged

EmptyFiles == [name \in {} |-> <<>>]
NoValidation == [input |-> PyNone, done |-> FALSE, result |-> Returned]
NoSave ==
    [kind |-> "none", path |-> "", exc |-> "", data |-> PyNone,
     dirBefore |-> TRUE]

\* the state after QuizGenerator(api_key): the output directory exists
Init ==
    /\ pc = "idle"
    /\ call = NoCall
    /\ script = [i \in 1..MaxAttempts |-> "return"]
    /\ attempt = 0
    /\ bodyRuns = 0
    /\ engineCalls = 0
    /\ waits = <<>>
    /\ outcome = NoOutcome
    /\ vrun = NoValidation
    /\ now = 0
    /\ dirExists = TRUE
    /\ files = EmptyFiles
    /\ saves = <<>>
    /\ saveOut = NoSave

Next ==
    \/ CallTopic
    \/ CallUrl
    \/ TopicBody
    \/ UrlBody
    \/ RetryWait
    \/ RetryStop
    \/ Tick

Spec == Init /\ [][Next]_vars

----------------------------------------------------------------------------
(* The claims about the generation operations, checked under Spec *)

\* the last generate_* call has ended
Completed == pc = "idle" /\ outcome.kind # "none"

\* the inputs the specification calls valid
ValidTopicInputs ==
    /\ call.op = "topic"
    /\ call.topic.t = "str" /\ call.topic.s # ""
    /\ call.num.t = "int" /\ call.num.n >= 1
    /\ call.difficulty.s \in {"Easy", "Medium", "Hard"}

\* a url with a scheme and a host: letters, "://", then a host character
HasSchemeAndHost(url) ==
    \E i \in 2..Len(url) :
        /\ \A j \in 1..(i - 1) : url[j] \in Letters
        /\ url[i] = ":"
        /\ Len(url) >= i + 3
        /\ url[i + 1] = "/" /\ url[i + 2] = "/"
        /\ url[i + 3] \notin {"/", "?", "#"}

ValidUrlInputs ==
    /\ call.op = "url"
    /\ HasSchemeAndHost(call.url)
    /\ call.num.t = "int" /\ call.num.n >= 1

\* the two shapes of a result
IsQuizShape(v) ==
    /\ v.t = "dict"
    /\ HasKey(v, "questions")
    /\ GetItem(v, "questions").t = "list"
    /\ \A i \in 1..Len(GetItem(v, "questions").c) :
          LET q == GetItem(v, "questions").c[i]
          IN  /\ \A key \in {"question", "options", "answer", "explanation"} :
                    HasKey(q, key)
              /\ GetItem(q, "options").t = "list"
              /\ Len(GetItem(q, "options").c) = 4

IsErrorShape(v) ==
    /\ v.t = "dict"
    /\ HasKey(v, "error") /\ HasKey(v, "timestamp") /\ HasKey(v, "params")

\* C1: a generate_topic_quiz call with valid inputs never raises, whatever
\* the engine does, and returns exactly one of the two shapes: a quiz whose
\* every question has the four fields and exactly 4 options, or a mapping
\* with the keys error, timestamp and params.
C1_TopicResultShape ==
    (Completed /\ ValidTopicInputs) =>
        /\ outcome.kind = "returned"
        /\ IsQuizShape(outcome.value) # IsErrorShape(outcome.value)

\* the engine returned questions, one of them with 5 options, and the call
\* returned the error record
C1_Witness ==
    /\ Completed /\ ValidTopicInputs
    /\ script[1] = "return"
    /\ IsErrorShape(outcome.value)
    /\ GetItem(outcome.value, "error").s =
           "Failed to generate topic quiz: Question 2 must have exactly 4 options"

\* C2: when the engine raises at its first two invocations and returns at
\* the third, the call (valid inputs) returns a value and the engine has
\* been invoked exactly 3 times.
C2_RetryUntilSuccess ==
    (/\ Completed
     /\ ValidTopicInputs \/ ValidUrlInputs
     /\ script = <<"raise", "raise", "return">>) =>
        /\ outcome.kind = "returned"
        /\ engineCalls = 3

\* C3: an input-validation failure reaches the caller at once: the body
\* has run exactly once, no backoff wait was made, and the error is a
\* ValueError.
C3_InputErrorImmediate ==
    (/\ Completed
     /\ \/ call.op = "topic" /\ ~ ValidTopicInputs
        \/ call.op = "url" /\ ~ HasSchemeAndHost(call.url)) =>
        /\ outcome.kind = "raised"
        /\ outcome.exc = "ValueError"
        /\ bodyRuns = 1
        /\ waits = <<>>

\* C4: a generate_url_quiz call whose url lacks a scheme or a host never
\* invokes the engine, at no attempt, never returns a value, and ends by
\* raising.
C4_InvalidUrlRaises ==
    (call.op = "url" /\ ~ HasSchemeAndHost(call.url)) =>
        /\ engineCalls = 0
        /\ outcome.kind # "returned"
        /\ Completed => outcome.kind = "raised"

\* a url with a scheme and no host: the call ended by raising after all
\* three attempts
C4_Witness ==
    /\ Completed
    /\ call.op = "url" /\ call.url = <<"h", ":", "p">>
    /\ bodyRuns = MaxAttempts
    /\ outcome.kind = "raised"

\* C5: a generate_* call with num_questions < 1 ends by raising and never
\* invokes the engine.
C5_NonPositiveCountRaises ==
    (Completed /\ call.num.t = "int" /\ call.num.n < 1) =>
        /\ outcome.kind = "raised"
        /\ engineCalls = 0

----------------------------------------------------------------------------
(* _validate_quiz_data as a function of its input: SpecValidate *)

\* the questions of the inputs: those of the engine, and a good question
\* without each one of its four fields
ValidatorQuestions ==
    EngineQuestions \cup {Without(GoodQuestion, i) : i \in 1..4}

ValidatorInputs ==
    {Quiz(qs) : qs \in SeqsUpTo(ValidatorQuestions, MaxQuestions)}
        \cup {PyDict(<<PyStr("items"), PyList(<<GoodQuestion>>)>>),
              PyDict(<<>>), PyList(<<GoodQuestion>>), PyStr("q"), PyNone}

InitValidate ==
    /\ pc = "idle"
    /\ call = NoCall
    /\ script = [i \in 1..MaxAttempts |-> "return"]
    /\ attempt = 0
    /\ bodyRuns = 0
    /\ engineCalls = 0
    /\ waits = <<>>
    /\ outcome = NoOutcome
    /\ \E d \in ValidatorInputs :
          vrun = [input |-> d, done |-> FALSE, result |-> Returned]
    /\ now = 0
    /\ dirExists = TRUE
    /\ files = EmptyFiles
    /\ saves = <<>>
    /\ saveOut = NoSave

RunValidate ==
    /\ ~ vrun.done
    /\ vrun' = [vrun EXCEPT !.done = TRUE,
                            !.result = validate_quiz_data(vrun.input)]
    /\ UNCHANGED <<pc, call, script, attempt, bodyRuns, engineCalls, waits,
                   outcome, now, dirExists, files, saves, saveOut>>

NextValidate == RunValidate

SpecValidate == InitValidate /\ [][NextValidate]_vars

\* a question that meets the rules
QuestionOk(q) ==
    /\ \A key \in {"question", "options", "answer", "explanation"} :
          HasKey(q, key)
    /\ GetItem(q, "options").t = "list"
    /\ Len(GetItem(q, "options").c) = 4

\* the 1-based position of the first question that breaks the rules
FirstBad(qs) ==
    CHOOSE i \in 1..Len(qs) :
        ~ QuestionOk(qs[i]) /\ \A j \in 1..(i - 1) : QuestionOk(qs[j])

\* the error the rules give for a question that breaks them
ErrorFor(q, i) ==
    IF ~ \A key \in {"question", "options", "answer", "explanation"} :
            HasKey(q, key)
    THEN "Question " \o ToString(i) \o " missing required fields"
    ELSE IF GetItem(q, "options").t # "list"
    THEN "Options for question " \o ToString(i) \o " must be a list"
    ELSE "Question " \o ToString(i) \o " must have exactly 4 options"

\* C6: _validate_quiz_data returns without raising exactly for a mapping
\* with a "questions" key whose every question has the four fields and a
\* list of exactly 4 options; when questions break the rules the error is
\* the one of the first such question, named by its 1-based index, and no
\* later question is examined.
C6_ValidatorAccepts ==
    vrun.done =>
        /\ vrun.result.ok <=> IsQuizShape(vrun.input)
        /\ (/\ vrun.input.t = "dict"
            /\ HasKey(vrun.input, "questions")
            /\ ~ vrun.result.ok) =>
               LET qs == GetItem(vrun.input, "questions").c
               IN  /\ vrun.result.exc = "ValueError"
                   /\ vrun.result.examined = FirstBad(qs)
                   /\ vrun.result.msg = ErrorFor(qs[FirstBad(qs)], FirstBad(qs))

\* two questions break the rules in different ways, and the error is the
\* one of question 1
C6_Witness ==
    /\ vrun.done
    /\ vrun.input = Quiz(<<Question(Options(3), PyStr("e")),
                           Without(GoodQuestion, 3)>>)
    /\ vrun.result.msg = "Question 1 must have exactly 4 options"
    /\ vrun.result.examined = 1

----------------------------------------------------------------------------
(* json.dump(quiz_data, f, indent=2, ensure_ascii=False): the text of a    *)
(* file is the sequence of its JSON tokens, the white space included       *)

Tok(k) == [k |-> k, s |-> "", n |-> 0]
\* a line break followed by the indentation of nesting level lvl
Ws(lvl) == [k |-> "ws", s |-> "", n |-> 2 * lvl]

\* DumpScalar with every scalar written between quotes
DumpScalarQuoted(v) ==
    CASE v.t = "str" -> [k |-> "str", s |-> v.s, n |-> 0]
      [] v.t = "int" -> [k |-> "str", s |-> ToString(v.n), n |-> 0]
      [] OTHER -> [k |-> "str", s |-> "null", n |-> 0]

\* the token of a string, an integer or None
DumpScalar(v) ==
    CASE v.t = "str" -> [k |-> "str", s |-> v.s, n |-> 0]
      [] v.t = "int" -> [k |-> "int", s |-> "", n |-> v.n]
      [] OTHER -> Tok("null")

RECURSIVE Dump(_, _), DumpItems(_, _, _), DumpEntries(_, _, _)

\* the items of a list from position i on, at nesting level lvl
DumpItems(items, i, lvl) ==
    IF i > Len(items) THEN <<>>
    ELSE (IF i > 1 THEN <<Tok(",")>> ELSE <<>>)
             \o <<Ws(lvl)>> \o Dump(items[i], lvl)
             \o DumpItems(items, i + 1, lvl)

\* the entries of a dict from entry i on, at nesting level lvl
DumpEntries(c, i, lvl) ==
    IF 2 * i > Len(c) THEN <<>>
    ELSE (IF i > 1 THEN <<Tok(",")>> ELSE <<>>)
             \o <<Ws(lvl), DumpScalar(c[2 * i - 1]), Tok(":")>>
             \o Dump(c[2 * i], lvl)
             \o DumpEntries(c, i + 1, lvl)

Dump(v, lvl) ==
    CASE v.t = "list" ->
            IF v.c = <<>> THEN <<Tok("["), Tok("]")>>
            ELSE <<Tok("[")>> \o DumpItems(v.c, 1, lvl + 1)
                     \o <<Ws(lvl), Tok("]")>>
      [] v.t = "dict" ->
            IF v.c = <<>> THEN <<Tok("{"), Tok("}")>>
            ELSE <<Tok("{")>> \o DumpEntries(v.c, 1, lvl + 1)
                     \o <<Ws(lvl), Tok("}")>>
      [] OTHER -> <<DumpScalar(v)>>

json_dump(quiz_data) == Dump(quiz_data, 0)

(* Reading a file back: the JSON parser *)

RECURSIVE SkipWs(_, _)
SkipWs(text, p) ==
    IF p <= Len(text) /\ text[p].k = "ws" THEN SkipWs(text, p + 1) ELSE p

RECURSIVE ParseValue(_, _), ParseItems(_, _, _), ParseEntries(_, _, _)

\* the value that starts at position p, and the position after it
ParseValue(text, p) ==
    LET tok == text[p]
    IN  CASE tok.k = "str" -> [v |-> PyStr(tok.s), p |-> p + 1]
          [] tok.k = "int" -> [v |-> PyInt(tok.n), p |-> p + 1]
          [] tok.k = "null" -> [v |-> PyNone, p |-> p + 1]
          [] tok.k = "[" -> ParseItems(text, SkipWs(text, p + 1), <<>>)
          [] tok.k = "{" -> ParseEntries(text, SkipWs(text, p + 1), <<>>)

\* the rest of an array whose items so far are acc
ParseItems(text, p, acc) ==
    IF text[p].k = "]" THEN [v |-> PyList(acc), p |-> p + 1]
    ELSE LET q == IF text[p].k = "," THEN SkipWs(text, p + 1) ELSE p
             item == ParseValue(text, q)
         IN  ParseItems(text, SkipWs(text, item.p), Append(acc, item.v))

\* the rest of an object whose entries so far are acc
ParseEntries(text, p, acc) ==
    IF text[p].k = "}" THEN [v |-> PyDict(acc), p |-> p + 1]
    ELSE LET q == IF text[p].k = "," THEN SkipWs(text, p + 1) ELSE p
             key == ParseValue(text, q)
             \* position SkipWs(text, key.p) holds the ":"
             val == ParseValue(text, SkipWs(text, SkipWs(text, key.p) + 1))
         IN  ParseEntries(text, SkipWs(text, val.p),
                          acc \o <<key.v, val.v>>)

json_load(text) == ParseValue(text, SkipWs(text, 1)).v

----------------------------------------------------------------------------
(* save_quiz and the output directory: SpecSave *)

output_dir == "quizzes"

\* datetime.now().strftime("%Y%m%d_%H%M%S"): the clock to the second
strftime(t) == ToString(t)

\* os.path.join(self.output_dir, f"quiz_{quiz_type}_{timestamp}.json")
Filepath(quiz_type, t) ==
    output_dir \o "/" \o "quiz_" \o quiz_type \o "_" \o strftime(t) \o ".json"

QuizTypes == {"topic", "url"}

\* the mappings generate_* hand to save_quiz: validated quizzes and error
\* records
SaveInputs ==
    {Quiz(<<>>),
     Quiz(<<GoodQuestion>>),
     Quiz(<<Question(Options(NumOptions), PyNone), GoodQuestion>>),
     TopicErrorRecord([NoCall EXCEPT !.op = "topic", !.topic = PyStr("AI"),
                          !.num = PyInt(2), !.qtype = PyStr("Multiple Choice"),
                          !.difficulty = PyStr("Easy")],
                      "engine failure", 0),
     UrlErrorRecord([NoCall EXCEPT !.op = "url",
                          !.url = <<"h", ":", "/", "/", "a">>,
                          !.num = PyInt(0), !.qtype = PyStr("Multiple Choice")],
                    "Question 1 must have exactly 4 options", 1)}

SaveUnchanged ==
    UNCHANGED <<pc, call, script, attempt, bodyRuns, engineCalls, waits,
                outcome, vrun>>

\* save_quiz(quiz_data, quiz_type): open(filepath, 'w') fails when the
\* directory is missing and the error leaves as IOError; otherwise the
\* file is created or truncated and the dump written to it
SaveQuiz ==
    /\ pc = "idle"
    /\ Len(saves) < MaxSaves
    /\ \E quiz_data \in SaveInputs, quiz_type \in QuizTypes :
          LET filepath == Filepath(quiz_type, now)
          IN  IF ~ dirExists
              THEN /\ saveOut' = [kind |-> "raised", path |-> "",
                                  exc |-> "IOError", data |-> quiz_data,
                                  dirBefore |-> dirExists]
                   /\ UNCHANGED <<files, saves>>
              ELSE /\ files' = (filepath :> json_dump(quiz_data)) @@ files
                   /\ saves' = Append(saves,
                                      [path |-> filepath,
                                       content |-> json_dump(quiz_data)])
                   /\ saveOut' = [kind |-> "returned", path |-> filepath,
                                  exc |-> "", data |-> quiz_data,
                                  dirBefore |-> dirExists]
    /\ UNCHANGED <<now, dirExists>>
    /\ SaveUnchanged

\* QuizGenerator(api_key) once more: os.makedirs(output_dir, exist_ok=True)
Construct ==
    /\ pc = "idle"
    /\ ~ dirExists
    /\ dirExists' = TRUE
    /\ UNCHANGED <<now, files, saves, saveOut>>
    /\ SaveUnchanged

\* the environment removes the output directory while it is empty
RemoveDir ==
    /\ pc = "idle"
    /\ dirExists
    /\ DOMAIN files = {}
    /\ dirExists' = FALSE
    /\ UNCHANGED <<now, files, saves, saveOut>>
    /\ SaveUnchanged

NextSave ==
    \/ SaveQuiz
    \/ Construct
    \/ RemoveDir
    \/ Tick

SpecSave == Init /\ [][NextSave]_vars

\* C7: when save_quiz returns a path, the content of the file at that
\* path, parsed back as JSON, equals the mapping that was saved.
C7_SaveRoundTrip ==
    saveOut.kind = "returned" =>
        /\ saveOut.path \in DOMAIN files
        /\ json_load(files[saveOut.path]) = saveOut.data

\* an error record, with its nested params and its integer, was saved
C7_Witness ==
    /\ saveOut.kind = "returned"
    /\ IsErrorShape(saveOut.data)
    /\ GetItem(GetItem(saveOut.data, "params"), "num_questions") = PyInt(2)
    /\ saveOut.path \in DOMAIN files

\* C8: output files are write-once: the file of every successful save
\* still holds what that save wrote, and there are as many files as
\* successful saves.
C8_WriteOnce ==
    /\ \A i \in 1..Len(saves) :
          /\ saves[i].path \in DOMAIN files
          /\ files[saves[i].path] = saves[i].content
    /\ Cardinality(DOMAIN files) = Len(saves)

\* C9: a save_quiz call made while the output directory does not exist
\* creates the directory and writes the file instead of failing.
C9_SaveCreatesDir ==
    (saveOut.kind # "none" /\ ~ saveOut.dirBefore) =>
        /\ saveOut.kind = "returned"
        /\ saveOut.path \in DOMAIN files

====
